---- MODULE Spec2Model ----
(***************************************************************************)
(* Model of the game loop of src/src/views/GameView.vue: the board, the    *)
(* three periodic timers (spawner, decay ticker, round clock), the click   *)
(* handler with its deferred 200ms completion, the round end with its      *)
(* deferred 100ms notification, and the session controller (start, stop,   *)
(* reset, changeLevel, unmount).                                           *)
(*                                                                         *)
(* JavaScript runs every handler to completion, so each handler is one     *)
(* action.  The model is untimed: a scheduled callback may fire at any     *)
(* later step, which allows every order of callbacks the host can produce  *)
(* (and some it cannot: what holds here holds of the program).  Two        *)
(* orderings of the host are kept: timeouts of the same delay fire in the  *)
(* order they were scheduled (one FIFO queue per delay), and the 100ms     *)
(* round-end timeout, whose delay no interval undercuts, fires before any  *)
(* tick of an interval created after it.                                   *)
(***************************************************************************)
EXTENDS Integers, Sequences, FiniteSets

(* ---------------- bounds of the model ---------------- *)

\* Cells of the board.  The board is scaled down: the source builds
\* BOARD_ROWS * BOARD_COLS = 6 * 12 cells (lines 27-28, 50-53).
BoardCells == 2
\* Blocks spawned in one round (totalSpawned is reset by every start).
MaxSpawned == 2
\* Points scored in one round.
MaxScore == 3
\* Click completions (200ms timeouts) pending at the same time.
MaxPending == 2
\* Ways the blocks on the board can still decay together: a block is spawned
\* while the product of the decay ticks left to each block, its own included,
\* is at most this.
MaxDecayPaths == 100
\* Clock ticks of a round during which blocks are spawned; after them the
\* clock runs on over an empty board only.
MaxBusyTicks == 1

(* ---------------- program constants ---------------- *)

GameSeconds == 60
DecayStep == 100
UpdatePeriod == 100
ClockPeriod == 1000
MinLevel == 1
MaxLevel == 5
MinSpawnInterval == 500
SpawnWindow == 5000
MaxSpawnRate == 10
MsPerSecond == 1000
LevelBase == 6
NULL == 0

Levels == MinLevel..MaxLevel
Cells == 0..(BoardCells - 1)

Max(a, b) == IF a >= b THEN a ELSE b
Min(a, b) == IF a <= b THEN a ELSE b

RECURSIVE GCD(_, _)
GCD(a, b) == IF b = 0 THEN a ELSE GCD(b, a % b)

VARIABLES
    level,          \* level.value
    score,          \* score.value
    totalSpawned,   \* totalSpawned.value
    gameBoard,      \* gameBoard.value: cell id -> [isActive, timeLeft, isAnimating]
    gameInterval,   \* handle of the spawner interval, or NULL
    updateInterval, \* handle of the decay interval, or NULL
    gameTimer,      \* handle of the round clock interval, or NULL
    gameTimeLeft,   \* gameTimeLeft.value
    isGameRunning,  \* isGameRunning.value
    isFullscreen,   \* isFullscreen.value
    timers,         \* the host's live intervals: set of [id, kind, period]
    completions,    \* pending 200ms click timeouts, oldest first:
                    \* [cell, onBoard, old, respawned]
    endAlerts,      \* pending 100ms round-end timeouts, oldest first: [atEnd]
    fsRequests,     \* kinds of fullscreen promise not yet settled
    fsRejected,     \* history: the last fullscreen promise to settle in the
                    \* running round was rejected
    phase,          \* history: "Idle", "Running", "Stopped", "Ended", "Unmounted"
    clockTicks      \* history: round clock ticks fired since the last start or reset

vars == <<level, score, totalSpawned, gameBoard, gameInterval, updateInterval,
          gameTimer, gameTimeLeft, isGameRunning, isFullscreen, timers,
          completions, endAlerts, fsRequests, fsRejected, phase, clockTicks>>

(* ---------------- difficulty parameters ---------------- *)

\* Math.max(1, 6 - level), in seconds
whiteDuration(lv) == Max(1, LevelBase - lv)

\* mutant: the rate is the level, not twice the level
spawnRate_single(lv) == Min(MaxSpawnRate, lv)

\* Math.min(10, level * 2)
spawnRate(lv) == Min(MaxSpawnRate, lv * 2)

\* Math.max(500, 5000 / spawnRate): the quotient is not an integer at level 3,
\* so the value is kept as the reduced fraction num/den (milliseconds).
spawnInterval(lv) ==
    LET r == spawnRate(lv)
        g == GCD(SpawnWindow, r)
    IN  IF SpawnWindow >= MinSpawnInterval * r
        THEN [num |-> SpawnWindow \div g, den |-> r \div g]
        ELSE [num |-> MinSpawnInterval, den |-> 1]

\* Math.round((score / totalSpawned) * 100), 0 when nothing was spawned.
\* Math.round rounds halves up.
hitRate(sc, sp) ==
    IF sp = 0 THEN 0 ELSE (2 * 100 * sc + sp) \div (2 * sp)

(* ---------------- board ---------------- *)

EmptyCell == [isActive |-> FALSE, timeLeft |-> 0, isAnimating |-> FALSE]

\* initBoard: a new array of new cell objects, all inactive
initBoard == [c \in Cells |-> EmptyCell]

\* A click timeout holds the cell object its click was made on (cell: its id).
\* onBoard: that object is an element of gameBoard.value.  old (history): the
\* timeout was scheduled before the last start or reset.  respawned (history):
\* a block has been spawned into that cell object since the click.
timeoutOf(c) == [cell |-> c, onBoard |-> TRUE, old |-> FALSE, respawned |-> FALSE]

\* initBoard replaces every cell object: a click timeout scheduled earlier
\* keeps its reference to a cell object that is no longer part of gameBoard.
detach(q) == [i \in 1..Len(q) |-> [q[i] EXCEPT !.onBoard = FALSE]]

\* history: every pending click timeout predates the rebuild
markOld(q) == [i \in 1..Len(q) |-> [q[i] EXCEPT !.old = TRUE]]

\* history: a block is spawned into cell c of the board; the click timeouts
\* pending for that cell object were scheduled for an earlier block
markRespawned(q, c) ==
    [i \in 1..Len(q) |->
        IF q[i].onBoard /\ q[i].cell = c THEN [q[i] EXCEPT !.respawned = TRUE] ELSE q[i]]

\* the product, over the blocks on the board, of the decay ticks left to each
decayPaths(board) ==
    LET RECURSIVE prod(_)
        prod(S) == IF S = {} THEN 1
                   ELSE LET c == CHOOSE x \in S : TRUE
                        IN  (board[c].timeLeft \div DecayStep) * prod(S \ {c})
    IN  prod({c \in Cells : board[c].isActive})

\* mutant: every cell is a candidate, occupied or not
availableCells_any(board) == Cells

\* spawnWhiteBlock: gameBoard.filter(cell => !cell.isActive)
availableCells(board) == {c \in Cells : ~board[c].isActive}

\* spawnWhiteBlock: the chosen cell becomes active with the level's lifetime
spawnAt(board, c, lv) ==
    [board EXCEPT ![c].isActive = TRUE,
                  ![c].timeLeft = whiteDuration(lv) * MsPerSecond]

\* clickCell: the guard in front of the mutation (line 77)
clickAccepted(cell, running) == cell.isActive /\ running

\* clickCell: the synchronous part of an accepted click
clickMark(board, c) == [board EXCEPT ![c].isAnimating = TRUE]

\* mutant: the timeout leaves timeLeft as it is
completeCell_keepsTime(cell) == [cell EXCEPT !.isActive = FALSE, !.isAnimating = FALSE]

\* clickCell: the body of the timeout, run on the cell object it captured
completeCell(cell) == [isActive |-> FALSE, timeLeft |-> 0, isAnimating |-> FALSE]

\* mutant: a block expires only when its time has gone below zero
decayCell_strict(cell) ==
    IF cell.isActive /\ ~cell.isAnimating
    THEN IF cell.timeLeft - DecayStep < 0
         THEN [cell EXCEPT !.isActive = FALSE, !.timeLeft = 0]
         ELSE [cell EXCEPT !.timeLeft = cell.timeLeft - DecayStep]
    ELSE cell

\* mutant: the decay does not test isAnimating
decayCell_ignoresAnimating(cell) ==
    IF cell.isActive
    THEN IF cell.timeLeft - DecayStep <= 0
         THEN [cell EXCEPT !.isActive = FALSE, !.timeLeft = 0]
         ELSE [cell EXCEPT !.timeLeft = cell.timeLeft - DecayStep]
    ELSE cell

\* updateGame: the body of forEach for one cell
decayCell(cell) ==
    IF cell.isActive /\ ~cell.isAnimating
    THEN IF cell.timeLeft - DecayStep <= 0
         THEN [cell EXCEPT !.isActive = FALSE, !.timeLeft = 0]
         ELSE [cell EXCEPT !.timeLeft = cell.timeLeft - DecayStep]
    ELSE cell

updateGame(board) == [c \in Cells |-> decayCell(board[c])]

(* ---------------- timers ---------------- *)

\* clearInterval(h) guarded by `if (h)`
clearInterval(ts, h) == IF h # NULL THEN {t \in ts : t.id # h} ELSE ts

\* mutant: stopGame forgets to clear the round clock
stopGameTimers_keepsClock(ts, gi, ui, gt) ==
    clearInterval(clearInterval(ts, gi), ui)

\* stopGame: the host's intervals after the three clearInterval calls
stopGameTimers(ts, gi, ui, gt) ==
    clearInterval(clearInterval(clearInterval(ts, gi), ui), gt)

\* setInterval returns a handle no live interval has; handles are positive.
freshId(ts) == CHOOSE n \in 1..(Cardinality(ts) + 1) : \A t \in ts : t.id # n

newTimer(ts, kind, period) == [id |-> freshId(ts), kind |-> kind, period |-> period]

\* the final statistics a round-end notification is meant to carry
stats(sc, sp) == [score |-> sc, totalSpawned |-> sp, hitRate |-> hitRate(sc, sp)]

(* ---------------- initial state: after onMounted ---------------- *)

Init ==
    /\ level = 1
    /\ score = 0
    /\ totalSpawned = 0
    /\ gameBoard = initBoard
    /\ gameInterval = NULL
    /\ updateInterval = NULL
    /\ gameTimer = NULL
    /\ gameTimeLeft = GameSeconds
    /\ isGameRunning = FALSE
    /\ isFullscreen = FALSE
    /\ timers = {}
    /\ completions = <<>>
    /\ endAlerts = <<>>
    /\ fsRequests = {}
    /\ fsRejected = FALSE
    /\ phase = "Idle"
    /\ clockTicks = 0

(* ---------------- session controller ---------------- *)

\* A period in whole milliseconds, in the representation of spawnInterval.
ms(n) == [num |-> n, den |-> 1]

\* mutant: start does not schedule the decay ticker
startGameTimers_noDecay(ts, lv) ==
    LET t1 == newTimer(ts, "spawn", spawnInterval(lv))
        ts1 == ts \cup {t1}
        t3 == newTimer(ts1, "clock", ms(ClockPeriod))
    IN  [timers |-> ts1 \cup {t3}, gameInterval |-> t1.id,
         updateInterval |-> NULL, gameTimer |-> t3.id]

\* mutant: the new spawner keeps the interval of the level before the change
startGameTimers_oldLevel(ts, lv) ==
    LET t1 == newTimer(ts, "spawn", spawnInterval(level))
        ts1 == ts \cup {t1}
        t2 == newTimer(ts1, "update", ms(UpdatePeriod))
        ts2 == ts1 \cup {t2}
        t3 == newTimer(ts2, "clock", ms(ClockPeriod))
    IN  [timers |-> ts2 \cup {t3}, gameInterval |-> t1.id,
         updateInterval |-> t2.id, gameTimer |-> t3.id]

\* startGame, lines 120-138: the three setInterval calls, in source order, on
\* the intervals that stopGame left alive.
startGameTimers(ts, lv) ==
    LET t1 == newTimer(ts, "spawn", spawnInterval(lv))
        ts1 == ts \cup {t1}
        t2 == newTimer(ts1, "update", ms(UpdatePeriod))
        ts2 == ts1 \cup {t2}
        t3 == newTimer(ts2, "clock", ms(ClockPeriod))
    IN  [timers |-> ts2 \cup {t3}, gameInterval |-> t1.id,
         updateInterval |-> t2.id, gameTimer |-> t3.id]

\* mutant: the round time is not put back
roundStart_keepsTime == [score |-> 0, totalSpawned |-> 0, gameTimeLeft |-> gameTimeLeft]

\* startGame, lines 108-110, and resetGame, lines 162-164: the counters of a
\* new round
roundStart == [score |-> 0, totalSpawned |-> 0, gameTimeLeft |-> GameSeconds]

\* startGame with level.value = lv
startGame(lv) ==
    LET started == startGameTimers(
                       stopGameTimers(timers, gameInterval, updateInterval, gameTimer), lv)
    IN  /\ gameBoard' = initBoard
        /\ completions' = markOld(detach(completions))
        /\ score' = roundStart.score
        /\ totalSpawned' = roundStart.totalSpawned
        /\ gameTimeLeft' = roundStart.gameTimeLeft
        /\ isGameRunning' = TRUE
        /\ IF ~isFullscreen
           THEN \* toggleFullscreen: requestFullscreen() is left pending
                fsRequests' = fsRequests \cup {"enter"}
           ELSE \* calculateBoardSize: layout only
                fsRequests' = fsRequests
        /\ fsRejected' = FALSE
        /\ timers' = started.timers
        /\ gameInterval' = started.gameInterval
        /\ updateInterval' = started.updateInterval
        /\ gameTimer' = started.gameTimer
        /\ phase' = "Running"
        /\ clockTicks' = 0
        /\ UNCHANGED <<isFullscreen, endAlerts>>

\* stopGame: the part every caller shares (and the round's history ends)
stopGame ==
    /\ isGameRunning' = FALSE
    /\ timers' = stopGameTimers(timers, gameInterval, updateInterval, gameTimer)
    /\ gameInterval' = NULL
    /\ updateInterval' = NULL
    /\ gameTimer' = NULL
    /\ fsRejected' = FALSE

\* the "start" button (disabled while the game runs, line 303)
StartGame ==
    /\ phase # "Unmounted"
    /\ ~isGameRunning
    /\ startGame(level)
    /\ UNCHANGED level

\* the "stop" button (disabled unless the game runs, line 304)
StopGame ==
    /\ phase # "Unmounted"
    /\ isGameRunning
    /\ stopGame
    /\ phase' = "Stopped"
    /\ UNCHANGED <<level, score, totalSpawned, gameBoard, gameTimeLeft, isFullscreen,
                   completions, endAlerts, fsRequests, clockTicks>>

\* the "reset" button: resetGame
ResetGame ==
    /\ phase # "Unmounted"
    /\ stopGame
    /\ gameBoard' = initBoard
    /\ completions' = markOld(detach(completions))
    /\ score' = roundStart.score
    /\ totalSpawned' = roundStart.totalSpawned
    /\ gameTimeLeft' = roundStart.gameTimeLeft
    /\ phase' = "Idle"
    /\ clockTicks' = 0
    /\ UNCHANGED <<level, isFullscreen, endAlerts, fsRequests>>

\* a level button: changeLevel(newLevel)
ChangeLevel(newLevel) ==
    /\ phase # "Unmounted"
    /\ level' = newLevel
    /\ IF isGameRunning
       THEN startGame(newLevel)
       ELSE UNCHANGED <<score, totalSpawned, gameBoard, gameInterval, updateInterval,
                        gameTimer, gameTimeLeft, isGameRunning, isFullscreen, timers,
                        completions, endAlerts, fsRequests, fsRejected, phase, clockTicks>>

\* onUnmounted: stopGame and the listeners removed
Unmount ==
    /\ phase # "Unmounted"
    /\ stopGame
    /\ phase' = "Unmounted"
    /\ UNCHANGED <<level, score, totalSpawned, gameBoard, gameTimeLeft, isFullscreen,
                   completions, endAlerts, fsRequests, clockTicks>>

(* ---------------- input resolver ---------------- *)

\* a click on cell c of the rendered board: clickCell(cell)
ClickCell(c) ==
    /\ phase # "Unmounted"
    /\ IF clickAccepted(gameBoard[c], isGameRunning)
       THEN /\ score < MaxScore
            /\ Len(completions) < MaxPending
            /\ gameBoard' = clickMark(gameBoard, c)
            /\ score' = score + 1
            /\ completions' = Append(completions, timeoutOf(c))
       ELSE UNCHANGED <<gameBoard, score, completions>>
    /\ UNCHANGED <<level, totalSpawned, gameInterval, updateInterval, gameTimer,
                   gameTimeLeft, isGameRunning, isFullscreen, timers, endAlerts,
                   fsRequests, fsRejected, phase, clockTicks>>

\* mutant: the timeout looks its cell up by id in the current board
afterCompletion_byId(board, h) ==
    [board EXCEPT ![h.cell] = completeCell(board[h.cell])]

\* the board after the oldest click timeout has run: the timeout writes to the
\* cell object it captured, which is part of the board only if not detached
afterCompletion(board, h) ==
    IF h.onBoard THEN [board EXCEPT ![h.cell] = completeCell(board[h.cell])] ELSE board

\* the oldest click timeout fires (lines 84-88)
CompletionFires ==
    /\ completions # <<>>
    /\ gameBoard' = afterCompletion(gameBoard, Head(completions))
    /\ completions' = Tail(completions)
    /\ UNCHANGED <<level, score, totalSpawned, gameInterval, updateInterval, gameTimer,
                   gameTimeLeft, isGameRunning, isFullscreen, timers, endAlerts,
                   fsRequests, fsRejected, phase, clockTicks>>

(* ---------------- periodic timers ---------------- *)

\* An interval may tick when no timer started before it with a delay no longer
\* than its period is pending: endGame has cancelled every interval older than
\* its 100ms timeout, and no interval has a shorter period.
mayTick(t) == t \in timers /\ endAlerts = <<>>

\* a tick of spawner interval t (lines 121-125, spawnWhiteBlock)
SpawnerTick(t) ==
    /\ mayTick(t)
    /\ t.kind = "spawn"
    /\ IF isGameRunning /\ availableCells(gameBoard) # {}
       THEN /\ totalSpawned < MaxSpawned
            /\ clockTicks < MaxBusyTicks
            /\ decayPaths(gameBoard) * ((whiteDuration(level) * MsPerSecond) \div DecayStep)
                   <= MaxDecayPaths
            /\ \E c \in availableCells(gameBoard) :
                   /\ gameBoard' = spawnAt(gameBoard, c, level)
                   /\ completions' = markRespawned(completions, c)
            /\ totalSpawned' = totalSpawned + 1
       ELSE UNCHANGED <<gameBoard, totalSpawned, completions>>
    /\ UNCHANGED <<level, score, gameInterval, updateInterval, gameTimer, gameTimeLeft,
                   isGameRunning, isFullscreen, timers, endAlerts, fsRequests,
                   fsRejected, phase, clockTicks>>

\* a tick of decay interval t (lines 128-130, updateGame)
DecayTick(t) ==
    /\ mayTick(t)
    /\ t.kind = "update"
    /\ gameBoard' = updateGame(gameBoard)
    /\ UNCHANGED <<level, score, totalSpawned, gameInterval, updateInterval, gameTimer,
                   gameTimeLeft, isGameRunning, isFullscreen, timers, completions,
                   endAlerts, fsRequests, fsRejected, phase, clockTicks>>

\* mutant: the round ends one tick late
roundOver_late(left) == left < 0

\* the round clock's test for the end of the round (line 135)
roundOver(left) == left <= 0

\* a tick of round clock interval t (lines 133-138), with endGame when it ends
\* the round
ClockTick(t) ==
    /\ mayTick(t)
    /\ t.kind = "clock"
    /\ clockTicks < MaxBusyTicks \/ \A c \in Cells : ~gameBoard[c].isActive
    /\ gameTimeLeft' = gameTimeLeft - 1
    /\ clockTicks' = clockTicks + 1
    /\ IF roundOver(gameTimeLeft - 1)
       THEN \* endGame: stopGame, then the alert is deferred by 100ms
            /\ stopGame
            /\ endAlerts' = Append(endAlerts, [atEnd |-> stats(score, totalSpawned)])
            /\ phase' = "Ended"
       ELSE UNCHANGED <<gameInterval, updateInterval, gameTimer, isGameRunning, timers,
                        endAlerts, phase, fsRejected>>
    /\ UNCHANGED <<level, score, totalSpawned, gameBoard, isFullscreen, completions,
                   fsRequests>>

\* what the alert of endGame shows: the refs are read when the timeout runs
alertText == stats(score, totalSpawned)

\* the oldest round-end timeout fires (lines 244-249): the alert is shown and
\* dismissed; exitFullscreen() changes the document, not the component
EndAlertFires ==
    /\ endAlerts # <<>>
    /\ endAlerts' = Tail(endAlerts)
    /\ UNCHANGED <<level, score, totalSpawned, gameBoard, gameInterval, updateInterval,
                   gameTimer, gameTimeLeft, isGameRunning, isFullscreen, timers,
                   completions, fsRequests, fsRejected, phase, clockTicks>>

(* ---------------- fullscreen ---------------- *)

\* mutant: a rejected request is not caught and takes the session down
FullscreenSettles_abort(kind, ok) ==
    /\ kind \in fsRequests
    /\ fsRequests' = fsRequests \ {kind}
    /\ fsRejected' = (~ok /\ isGameRunning)
    /\ isFullscreen' = IF ok THEN kind = "enter" ELSE isFullscreen
    /\ isGameRunning' = IF ok THEN isGameRunning ELSE FALSE
    /\ UNCHANGED <<level, score, totalSpawned, gameBoard, gameInterval, updateInterval,
                   gameTimer, gameTimeLeft, timers, completions, endAlerts, phase,
                   clockTicks>>

\* the promise of requestFullscreen() settles (toggleFullscreen, lines 210-224):
\* fulfilled, isFullscreen is set; rejected, the error is caught and logged
FullscreenSettles(kind, ok) ==
    /\ kind \in fsRequests
    /\ fsRequests' = fsRequests \ {kind}
    /\ fsRejected' = (~ok /\ isGameRunning)
    /\ isFullscreen' = IF ok THEN kind = "enter" ELSE isFullscreen
    /\ UNCHANGED <<level, score, totalSpawned, gameBoard, gameInterval, updateInterval,
                   gameTimer, gameTimeLeft, isGameRunning, timers, completions,
                   endAlerts, phase, clockTicks>>

\* a fullscreenchange event: handleFullscreenChange reads the document's state
HandleFullscreenChange(inFullscreen) ==
    /\ phase # "Unmounted"
    /\ isFullscreen' = inFullscreen
    /\ UNCHANGED <<level, score, totalSpawned, gameBoard, gameInterval, updateInterval,
                   gameTimer, gameTimeLeft, isGameRunning, timers, completions,
                   endAlerts, fsRequests, fsRejected, phase, clockTicks>>

(* ---------------- specification ---------------- *)

GameNext ==
    \/ StartGame
    \/ StopGame
    \/ ResetGame
    \/ \E n \in Levels : ChangeLevel(n)
    \/ Unmount
    \/ \E c \in Cells : ClickCell(c)
    \/ CompletionFires
    \/ \E t \in timers : SpawnerTick(t)
    \/ \E t \in timers : DecayTick(t)
    \/ \E t \in timers : ClockTick(t)
    \/ EndAlertFires

FullscreenNext ==
    \/ \E kind \in fsRequests, ok \in BOOLEAN : FullscreenSettles(kind, ok)
    \/ \E b \in BOOLEAN : HandleFullscreenChange(b)

\* The game loop while the host leaves fullscreen requests unsettled: no game
\* state depends on isFullscreen.
Spec == Init /\ [][GameNext]_vars

\* The game loop together with the host's fullscreen events.
Next == GameNext \/ FullscreenNext

SpecFullscreen == Init /\ [][Next]_vars

(* ---------------- claims ---------------- *)

\* the handle that holds an interval of the given kind
handleOf(kind) ==
    CASE kind = "spawn" -> gameInterval
      [] kind = "update" -> updateInterval
      [] kind = "clock" -> gameTimer

\* A cell is clickable iff it is active and not animating (the data model's
\* definition).
clickable(cell) == cell.isActive /\ ~cell.isAnimating

\* C1: a click is a no-op (score, every cell and the pending completions
\* unchanged) unless the session is running and the clicked cell is active and
\* not animating.
C1_RejectedClickIsNoOp ==
    [][\A c \in Cells :
          (ClickCell(c) /\ ~(isGameRunning /\ clickable(gameBoard[c])))
              => UNCHANGED <<score, gameBoard, completions>>]_vars

\* C2: the score never exceeds the number of blocks spawned.
C2_ScoreAtMostSpawned == score <= totalSpawned

\* C3: every live interval is the one its handle holds, there is at most one
\* of each kind, and none outlives the running session: start, stop and reset
\* leave no timer of an earlier round behind.
C3_NoOrphanTimers ==
    /\ \A t \in timers : t.id = handleOf(t.kind)
    /\ \A t, u \in timers : t.kind = u.kind => t = u
    /\ ~isGameRunning => timers = {}

\* C3 witness: a round is running with its three timers after an earlier round,
\* in which a click was made, has been replaced.
C3_Witness ==
    /\ isGameRunning
    /\ Cardinality(timers) = 3
    /\ \E i \in 1..Len(completions) : completions[i].old

\* C4: between a manual stop and the next start or reset no cell changes.
C4_StoppedBoardFrozen ==
    [][(phase = "Stopped" /\ phase' = "Stopped") => gameBoard' = gameBoard]_vars

\* C5: a click completion scheduled before a start or reset and firing after
\* it leaves the rebuilt board unchanged.
C5_OldCompletionHarmless ==
    [][(CompletionFires /\ Head(completions).old) => gameBoard' = gameBoard]_vars

\* C5 witness: in a running round the next click timeout to fire is one that
\* an earlier board's click scheduled, set for the cell object of that board.
C5_Witness ==
    /\ phase = "Running"
    /\ completions # <<>>
    /\ Head(completions).old
    /\ ~Head(completions).onBoard

\* C6: the round clock counts gameTimeLeft down from 60 by one per tick and
\* keeps it within 0..60; the 60th tick of a round leaves gameTimeLeft at 0, the
\* session not running and no periodic timer scheduled.
C6_RoundClock ==
    /\ gameTimeLeft \in 0..GameSeconds
    /\ gameTimeLeft = GameSeconds - clockTicks
    /\ clockTicks = GameSeconds =>
           /\ ~isGameRunning
           /\ timers = {}
           /\ gameInterval = NULL /\ updateInterval = NULL /\ gameTimer = NULL

\* C6 witness: a round has been ended by its 60th clock tick.
C6_Witness == phase = "Ended" /\ clockTicks = GameSeconds /\ gameTimeLeft = 0

\* C7: the round-end notification carries the score, totalSpawned and hitRate
\* of the moment the round ended.
C7_AlertCarriesFinalStats ==
    [][EndAlertFires => alertText = Head(endAlerts).atEnd]_vars

\* C8: changeLevel(n) in a running session performs a full start: level n, an
\* empty board, zero counters, 60 seconds, running, exactly the three timers
\* the handles hold, and a spawner of period spawnInterval(n).
C8_ChangeLevelRestarts ==
    [][\A n \in Levels :
          (isGameRunning /\ ChangeLevel(n)) =>
              /\ level' = n
              /\ \A c \in Cells : /\ ~gameBoard'[c].isActive
                                  /\ gameBoard'[c].timeLeft = 0
                                  /\ ~gameBoard'[c].isAnimating
              /\ score' = 0
              /\ totalSpawned' = 0
              /\ gameTimeLeft' = GameSeconds
              /\ isGameRunning'
              /\ Cardinality(timers') = 3
              /\ \E t \in timers' : /\ t.kind = "spawn"
                                    /\ t.id = gameInterval'
                                    /\ t.period = spawnInterval(n)
              /\ \E t \in timers' : t.kind = "update" /\ t.id = updateInterval'
              /\ \E t \in timers' : t.kind = "clock" /\ t.id = gameTimer']_vars

\* C8 witness: a round runs at level 3 with a level-3 spawner, after an earlier
\* round in which a click was made.
C8_Witness ==
    /\ isGameRunning
    /\ level = 3
    /\ clockTicks = 0
    /\ \E t \in timers : t.kind = "spawn" /\ t.period = spawnInterval(3)
    /\ \E i \in 1..Len(completions) : completions[i].old

\* the state reset leaves: an empty board, zero counters, 60 seconds, not
\* running, no periodic timer
ResetState ==
    /\ \A c \in Cells : /\ ~gameBoard[c].isActive
                        /\ gameBoard[c].timeLeft = 0
                        /\ ~gameBoard[c].isAnimating
    /\ score = 0
    /\ totalSpawned = 0
    /\ gameTimeLeft = GameSeconds
    /\ ~isGameRunning
    /\ timers = {}
    /\ gameInterval = NULL /\ updateInterval = NULL /\ gameTimer = NULL

\* C9: reset leads to ResetState from every state, and a second reset changes
\* nothing more.
C9_ResetIdempotent ==
    [][ResetGame =>
          /\ ResetState'
          /\ stopGameTimers(timers', gameInterval', updateInterval', gameTimer') = timers'
          /\ markOld(detach(completions')) = completions'
          /\ initBoard = gameBoard'
          /\ roundStart.score = score'
          /\ roundStart.totalSpawned = totalSpawned'
          /\ roundStart.gameTimeLeft = gameTimeLeft'
          /\ phase' = "Idle"
          /\ clockTicks' = 0]_vars

\* C9 witness: the session has been reset after a round in which a click was
\* made and whose clock had ticked.
C9_Witness ==
    /\ phase = "Idle"
    /\ ResetState
    /\ \E i \in 1..Len(completions) : completions[i].old

\* C10: no cell is inactive with time left, and no cell has negative time left.
C10_CellTimeLeft ==
    \A c \in Cells :
        /\ ~(~gameBoard[c].isActive /\ gameBoard[c].timeLeft > 0)
        /\ gameBoard[c].timeLeft >= 0

\* C10 witness: a block that was never clicked has expired by decay.
C10_Witness ==
    /\ isGameRunning
    /\ totalSpawned = 1
    /\ score = 0
    /\ \A c \in Cells : ~gameBoard[c].isActive /\ gameBoard[c].timeLeft = 0

\* the lifetime the design gives a block of level lv: level 1 -> 5000ms, one
\* second less per level, never below 1000ms
blockLifetimeMs(lv) == IF 6 - lv > 1 THEN (6 - lv) * 1000 ELSE 1000

\* C11: a spawner tick of a running session with an inactive cell changes
\* exactly one cell, which was inactive and not animating, to active with
\* timeLeft = blockLifetimeMs(level), and adds 1 to totalSpawned; with no
\* inactive cell, or when the session is not running, it changes neither the
\* board nor totalSpawned.
C11_SpawnerTick ==
    [][\A t \in timers :
          SpawnerTick(t) =>
              IF isGameRunning /\ (\E c \in Cells : ~gameBoard[c].isActive)
              THEN /\ totalSpawned' = totalSpawned + 1
                   /\ \E c \in Cells :
                          /\ ~gameBoard[c].isActive
                          /\ ~gameBoard[c].isAnimating
                          /\ gameBoard'[c] = [isActive |-> TRUE,
                                              timeLeft |-> blockLifetimeMs(level),
                                              isAnimating |-> FALSE]
                          /\ \A d \in Cells \ {c} : gameBoard'[d] = gameBoard[d]
              ELSE UNCHANGED <<gameBoard, totalSpawned>>]_vars

\* C11 witness: the spawner has filled the board of a running round, one block
\* at a time: its next tick finds no inactive cell.
C11_Witness ==
    /\ isGameRunning
    /\ \A c \in Cells : gameBoard[c].isActive /\ ~gameBoard[c].isAnimating
    /\ totalSpawned = Cardinality(Cells)
    /\ score = 0

\* C12: a decay tick subtracts 100 from timeLeft of every cell that is active
\* and not animating, and makes the cell inactive with timeLeft = 0 when the
\* result is <= 0; it leaves every animating cell and every inactive cell as
\* it is, and score and totalSpawned unchanged.
C12_DecayTick ==
    [][\A t \in timers :
          DecayTick(t) =>
              /\ UNCHANGED <<score, totalSpawned>>
              /\ \A c \in Cells :
                     LET before == gameBoard[c]
                         after == gameBoard'[c]
                     IN  IF before.isActive /\ ~before.isAnimating
                         THEN IF before.timeLeft - 100 <= 0
                              THEN /\ ~after.isActive
                                   /\ after.timeLeft = 0
                                   /\ ~after.isAnimating
                              ELSE /\ after.isActive
                                   /\ after.timeLeft = before.timeLeft - 100
                                   /\ ~after.isAnimating
                         ELSE after = before]_vars

\* C12 witness: after decay ticks the board of a running round holds a block
\* one tick from expiry next to a clicked, animating block.
C12_Witness ==
    /\ isGameRunning
    /\ \E a, b \in Cells :
           /\ gameBoard[a].isActive /\ gameBoard[a].isAnimating
           /\ gameBoard[b].isActive /\ ~gameBoard[b].isAnimating
           /\ gameBoard[b].timeLeft = 100

\* The decay ticks a never-clicked block of a running level-1 round has been
\* through: the board of a running round was built by its start, at the
\* level it still has, so each of its blocks was spawned with 5000ms and has
\* lost 100ms per decay tick since.
ticksSeen(cell) == (5000 - cell.timeLeft) \div 100

\* C13 (as stated): at level 1 the 5th decay tick of a block spawned with
\* 5000ms and never clicked leaves its cell inactive with timeLeft = 0, and
\* score and totalSpawned unchanged.
C13_ExpiredAfterFiveTicks ==
    [][\A t \in timers, c \in Cells :
          ( /\ DecayTick(t)
            /\ level = 1
            /\ gameBoard[c].isActive /\ ~gameBoard[c].isAnimating
            /\ ticksSeen(gameBoard[c]) + 1 = 5 )
          => /\ ~gameBoard'[c].isActive
             /\ gameBoard'[c].timeLeft = 0
             /\ UNCHANGED <<score, totalSpawned>>]_vars

\* C13 (amended): at level 1 a block spawned with 5000ms and never clicked is
\* still active, with timeLeft = 5000 - 100 n, after its n-th decay tick for
\* n < 50, and inactive with timeLeft = 0 after its 50th; the ticks leave score
\* and totalSpawned unchanged.
C13_ExpiredAfterFiftyTicks ==
    [][\A t \in timers, c \in Cells :
          ( /\ DecayTick(t)
            /\ level = 1
            /\ gameBoard[c].isActive /\ ~gameBoard[c].isAnimating )
          => LET n == ticksSeen(gameBoard[c]) + 1
             IN  /\ n \in 1..50
                 /\ n < 50 => /\ gameBoard'[c].isActive
                              /\ gameBoard'[c].timeLeft = 5000 - 100 * n
                 /\ n = 50 => /\ ~gameBoard'[c].isActive
                              /\ gameBoard'[c].timeLeft = 0
                 /\ UNCHANGED <<score, totalSpawned>>]_vars

\* C13 witness: in a level-1 round without a click the only block spawned has
\* gone: decay has run it down.
C13_Witness ==
    /\ isGameRunning
    /\ level = 1
    /\ totalSpawned = 1
    /\ score = 0
    /\ \A i \in 1..Len(completions) : completions[i].old
    /\ \A c \in Cells : ~gameBoard[c].isActive /\ gameBoard[c].timeLeft = 0

\* a step that rebuilds the board and zeroes the counters: the start of a new
\* round, or a reset
NewRound ==
    \/ StartGame
    \/ ResetGame
    \/ \E n \in Levels : isGameRunning /\ ChangeLevel(n)

\* C14: a click on an active, not animating cell of a running session adds
\* exactly 1 to score and makes the cell animating, still active, in the click
\* step itself; from then on, within the round, the score is not taken back
\* and the cell stays active and animating until the completion scheduled for
\* that block fires, which leaves it inactive, not animating, with timeLeft 0.
C14_ClickThenCompletion ==
    [][\A c \in Cells :
          /\ (ClickCell(c) /\ isGameRunning /\ clickable(gameBoard[c])) =>
                 /\ score' = score + 1
                 /\ gameBoard'[c] = [gameBoard[c] EXCEPT !.isAnimating = TRUE]
                 /\ gameBoard'[c].isActive
                 /\ Len(completions') = Len(completions) + 1
          /\ (gameBoard[c].isActive /\ gameBoard[c].isAnimating /\ ~NewRound) =>
                 /\ score' >= score
                 /\ gameBoard'[c].isActive => gameBoard'[c] = gameBoard[c]
                 /\ ~gameBoard'[c].isActive =>
                        /\ CompletionFires
                        /\ Head(completions).cell = c
                        /\ Head(completions).onBoard
                        /\ ~Head(completions).respawned
                        /\ gameBoard'[c].timeLeft = 0
                        /\ ~gameBoard'[c].isAnimating]_vars

C16_HitRatePercentage ==
    LET h == hitRate(score, totalSpawned)
    IN  /\ totalSpawned = 0 => h = 0
        /\ totalSpawned > 0 =>
               /\ 2 * h * totalSpawned <= 2 * 100 * score + totalSpawned
               /\ 2 * h * totalSpawned > 2 * 100 * score - totalSpawned
        /\ hitRate(15, 20) = 75
        /\ h \in 0..100

\* a step in which a pending fullscreen request settles: it leaves the set of
\* pending requests
RequestSettles == \E kind \in fsRequests : kind \notin fsRequests'

\* C17: start (the button, or changeLevel in a running session) ends with the
\* session running, the board rebuilt, score 0, totalSpawned 0, 60 seconds and
\* the three periodic timers scheduled, its fullscreen request still pending
\* when it made one; and the request settling, fulfilled or rejected, changes
\* nothing of the session, the board, the counters or the timers.
C17_StartSurvivesFullscreenFailure ==
    [][/\ (StartGame \/ \E n \in Levels : isGameRunning /\ ChangeLevel(n)) =>
              /\ isGameRunning'
              /\ \A c \in Cells : /\ ~gameBoard'[c].isActive
                                  /\ gameBoard'[c].timeLeft = 0
                                  /\ ~gameBoard'[c].isAnimating
              /\ score' = 0
              /\ totalSpawned' = 0
              /\ gameTimeLeft' = 60
              /\ \A k \in {"spawn", "update", "clock"} : \E t \in timers' : t.kind = k
              /\ ~isFullscreen => "enter" \in fsRequests'
       /\ RequestSettles =>
              UNCHANGED <<isGameRunning, gameBoard, score, totalSpawned, gameTimeLeft,
                          timers, gameInterval, updateInterval, gameTimer, level>>]_vars

\* C17 witness: the fullscreen request of a start was rejected and the round
\* goes on outside fullscreen: running, its three timers scheduled, a block
\* spawned.
C17_Witness ==
    /\ isGameRunning
    /\ fsRejected
    /\ fsRequests = {}
    /\ ~isFullscreen
    /\ Cardinality(timers) = 3
    /\ totalSpawned > 0

\* C18: within a round a block leaves its cell (the cell turns inactive) only
\* in a decay tick that brings its own timeLeft to 0, or when the completion
\* of a click made on that block fires: never by a completion scheduled
\* before the block was spawned.
C18_RemovedOnlyByOwnEvents ==
    [][\A c \in Cells :
          (gameBoard[c].isActive /\ ~gameBoard'[c].isActive /\ ~NewRound) =>
              \/ /\ \E t \in timers : DecayTick(t)
                 /\ ~gameBoard[c].isAnimating
                 /\ gameBoard[c].timeLeft - 100 <= 0
              \/ /\ CompletionFires
                 /\ Head(completions).onBoard
                 /\ Head(completions).cell = c
                 /\ ~Head(completions).respawned]_vars

\* C19: between handlers the session is running exactly when the spawner, the
\* decay ticker and the round clock are all scheduled, each held by its
\* handle, and when it is not running none of them is scheduled: after any
\* sequence of start, stop, reset, changeLevel, round end and unmount.
C19_RunningIffTimers ==
    LET scheduled(k) == \E t \in timers : t.kind = k /\ t.id = handleOf(k)
    IN  /\ isGameRunning <=> \A k \in {"spawn", "update", "clock"} : scheduled(k)
        /\ ~isGameRunning => \A k \in {"spawn", "update", "clock"} : ~scheduled(k)
        /\ ~isGameRunning => timers = {}

\* C19 witness: the component was unmounted in the middle of a round: blocks
\* had been spawned, the clock had ticked, and no timer is left.
C19_Witness ==
    /\ phase = "Unmounted"
    /\ ~isGameRunning
    /\ timers = {}
    /\ totalSpawned > 0
    /\ gameTimeLeft < GameSeconds
    /\ \E c \in Cells : gameBoard[c].isActive

\* C20: every active cell has 0 < timeLeft <= blockLifetimeMs(level) for the
\* current level, so that the timer bar's ratio timeLeft / lifetime lies in
\* (0, 1].
C20_TimerBarWithinRange ==
    \A c \in Cells :
        gameBoard[c].isActive =>
            /\ gameBoard[c].timeLeft > 0
            /\ gameBoard[c].timeLeft <= blockLifetimeMs(level)

====
